---------------------------- MODULE Spec2Model ----------------------------
(***************************************************************************)
(* A model of minimal-app's tree-shaking pipeline                          *)
(*   semantic analysis -> call graph -> reachability -> closure ->         *)
(*   pruning -> import rewriting                                           *)
(* and of its documentation-stripping minifier.                            *)
(*                                                                         *)
(* Strings that the code splits or concatenates (fully-qualified names,    *)
(* dotted module names, the entrypoint) are sequences of tokens: an        *)
(* identifier is one token, and the separators ":" and "." are tokens of   *)
(* their own, so that str.split and the f-strings are modelled by what     *)
(* they do to the text.                                                    *)
(***************************************************************************)
EXTENDS Integers, Sequences, FiniteSets, TLC

VARIABLES
    pc,          \* position of the run
    entrypoint,  \* the entrypoint string, as tokens
    nodes,       \* CallGraph.nodes: fully-qualified name -> Symbol
    edges,       \* CallGraph.edges: caller -> set of callees (a dict: keys may be missing)
    stack,       \* the work list of the traversal
    reachable,   \* the visited set of the traversal (CallGraph.reachable at its end)
    closed,      \* the set compute_reachable_symbols returns
    expansions,  \* name -> the number of times the traversal has expanded it
    modules,         \* the discovered modules, in discovery order: [name, tree]
    keep_docstrings, \* the --keep-docstrings flag
    module_renames,  \* optimize_project's rename map: module name -> suffixed name
    todo,            \* the modules the per-module loop has still to process
    out,             \* module name -> the tree handed to the renderer
    minified,        \* minify-only mode: the trees of successive MinifierTransformer passes
    stripped,        \* the trees of successive DocstringRemover passes
    dry_run,         \* the --dry-run flag
    out_root_made,   \* out_root.mkdir has been called
    written          \* the output files written: the renamed module names

graphVars == <<nodes, edges, stack, reachable, closed, expansions>>
treeVars == <<modules, keep_docstrings, module_renames, todo, out, minified, stripped>>
fsVars == <<dry_run, out_root_made, written>>

vars == <<pc, entrypoint, nodes, edges, stack, reachable, closed, expansions,
          modules, keep_docstrings, module_renames, todo, out, minified, stripped,
          dry_run, out_root_made, written>>

---------------------------------------------------------------------------
(* Text helpers *)

COLON == ":"
DOT == "."

\* position of the first occurrence of token t in s, 0 when there is none
RECURSIVE FirstIndexFrom(_, _, _)
FirstIndexFrom(t, s, i) ==
    IF i > Len(s) THEN 0
    ELSE IF s[i] = t THEN i
    ELSE FirstIndexFrom(t, s, i + 1)

FirstIndex(t, s) == FirstIndexFrom(t, s, 1)

Contains(t, s) == FirstIndex(t, s) # 0

\* s.split(t, 1): the text before and after the first t (only when t occurs)
Before(t, s) == SubSeq(s, 1, FirstIndex(t, s) - 1)
After(t, s) == SubSeq(s, FirstIndex(t, s) + 1, Len(s))

\* f"{module}:{name}"
FQName(module, name) == module \o <<COLON, name>>

\* f"{module}:{cls}.{name}"
FQMethod(module, cls, name) == module \o <<COLON, cls, DOT, name>>

\* a set as a list, in one of the orders a Python set may be iterated in
Orders(S) ==
    { f \in [1..Cardinality(S) -> S] : \A x \in S : \E i \in DOMAIN f : f[i] = x }

RemoveAt(s, i) == SubSeq(s, 1, i - 1) \o SubSeq(s, i + 1, Len(s))

---------------------------------------------------------------------------
(* Reachability: the traversal of build_call_graph *)

\* cg.edges.get(symbol, ())
EdgesGet(e, symbol) == IF symbol \in DOMAIN e THEN e[symbol] ELSE {}

\* Pushed, with the test for an unvisited callee replaced by a test that the
\* callee has an entry of its own in the edge map.
PushedOnlyKeys(e, symbol, visited) ==
    { callee \in EdgesGet(e, symbol) : callee \in DOMAIN e /\ callee \notin visited }

\* The callees that one expansion pushes: `if callee not in reachable`.
Pushed(e, symbol, visited) ==
    { callee \in EdgesGet(e, symbol) : callee \notin visited }

\* The positions the next element may be taken from.  The code's
\* stack.pop() takes the last one; which callee is last depends on the
\* iteration order of a set, and the design leaves the order open
\* (depth-first, breadth-first or any other), so every position is allowed.
PopPositions(s) == 1..Len(s)

\* AlreadyReachable answering that no name has been visited.
AlreadyReachableNever(symbol, visited) == FALSE

\* `if symbol in reachable: continue`
AlreadyReachable(symbol, visited) == symbol \in visited

\* the number of expansions counted for a name
Expanded(count, symbol) == IF symbol \in DOMAIN count THEN count[symbol] ELSE 0

\* One iteration of `while stack:`.  An expansion is `reachable.add(symbol)`
\* followed by the loop over the callees.
TraverseStep ==
    /\ pc = "traverse"
    /\ stack # <<>>
    /\ \E i \in PopPositions(stack) :
         LET symbol == stack[i]
             rest == RemoveAt(stack, i)
         IN  IF AlreadyReachable(symbol, reachable)
             THEN /\ stack' = rest
                  /\ UNCHANGED <<reachable, expansions>>
             ELSE /\ reachable' = reachable \cup {symbol}
                  /\ expansions' = (symbol :> Expanded(expansions, symbol) + 1) @@ expansions
                  /\ \E order \in Orders(Pushed(edges, symbol, reachable \cup {symbol})) :
                       stack' = rest \o order
    /\ UNCHANGED <<pc, entrypoint, nodes, edges, closed, treeVars, fsVars>>

\* The loop ends: cg.reachable = reachable; return cg
TraverseEnd ==
    /\ pc = "traverse"
    /\ stack = <<>>
    /\ pc' = "close"
    /\ UNCHANGED <<entrypoint, nodes, edges, stack, reachable, closed, expansions,
                   treeVars, fsVars>>

---------------------------------------------------------------------------
(* Closure: compute_reachable_symbols *)

\* ExtraOf without `extra.add(class_sym)`.
ExtraOfNoClass(fqname, symtab) ==
    IF ~Contains(COLON, fqname) THEN {}
    ELSE LET module == Before(COLON, fqname)
             rest == After(COLON, fqname)
         IN  IF ~Contains(DOT, rest) THEN {}
             ELSE LET class_name == Before(DOT, rest)
                      init_sym == module \o <<COLON>> \o class_name \o <<DOT, "__init__">>
                  IN  IF init_sym \in symtab THEN {init_sym} ELSE {}

\* What one name of the reachable set contributes to `extra`.
ExtraOf(fqname, symtab) ==
    IF ~Contains(COLON, fqname) THEN {}          \* ValueError: continue
    ELSE LET module == Before(COLON, fqname)
             rest == After(COLON, fqname)
         IN  IF ~Contains(DOT, rest) THEN {}
             ELSE LET class_name == Before(DOT, rest)
                      class_sym == module \o <<COLON>> \o class_name
                      init_sym == module \o <<COLON>> \o class_name \o <<DOT, "__init__">>
                  IN  {class_sym} \cup (IF init_sym \in symtab THEN {init_sym} ELSE {})

\* compute_reachable_symbols returning `extra` instead of `reachable | extra`.
ComputeReachableSymbolsOnlyExtra(cg_reachable, symtab) ==
    UNION { ExtraOf(fqname, symtab) : fqname \in cg_reachable }

ComputeReachableSymbols(cg_reachable, symtab) ==
    cg_reachable \cup UNION { ExtraOf(fqname, symtab) : fqname \in cg_reachable }

Closure ==
    /\ pc = "close"
    /\ closed' = ComputeReachableSymbols(reachable, DOMAIN nodes)
    /\ pc' = "closed"
    /\ UNCHANGED <<entrypoint, nodes, edges, stack, reachable, expansions,
                   treeVars, fsVars>>

---------------------------------------------------------------------------
(* Syntax trees.  A node is a record with its kind in field k; a body is   *)
(* a sequence of statements.  An optional value (None or a value) is a     *)
(* sequence of length 0 or 1.                                              *)

None == <<>>
Some(x) == <<x>>

SUFFIX == "__ma"

StrConst == [k |-> "Constant", isstr |-> TRUE]
NumConst == [k |-> "Constant", isstr |-> FALSE]
Name(id) == [k |-> "Name", id |-> id]
Attribute(value, attr) == [k |-> "Attribute", value |-> value, attr |-> attr]
Call(func, args) == [k |-> "Call", func |-> func, args |-> args]

Expr(value) == [k |-> "Expr", value |-> value]
Assign(value) == [k |-> "Assign", value |-> value]
Pass == [k |-> "Pass"]
If(body, orelse) == [k |-> "If", body |-> body, orelse |-> orelse]
FunctionDef(name, body) == [k |-> "FunctionDef", name |-> name, body |-> body]
AsyncFunctionDef(name, body) == [k |-> "AsyncFunctionDef", name |-> name, body |-> body]
ClassDef(name, body) == [k |-> "ClassDef", name |-> name, body |-> body]
Alias(name, asname) == [name |-> name, asname |-> asname]
Import(names) == [k |-> "Import", names |-> names]
ImportFrom(module, names) == [k |-> "ImportFrom", module |-> module, names |-> names]
Module(body) == [k |-> "Module", body |-> body]

\* a bare string literal as a statement
DocStmt == Expr(StrConst)

\* IsFunction without the async visitors.
IsFunctionSyncOnly(s) == s.k = "FunctionDef"

\* the nodes visit_FunctionDef handles, directly or through
\* visit_AsyncFunctionDef
IsFunction(s) == s.k \in {"FunctionDef", "AsyncFunctionDef"}

\* HasDocstring without the tests on the expression: any expression
\* statement counts.
HasDocstringAnyExpr(body) ==
    /\ body # <<>>
    /\ body[1].k = "Expr"

\* isinstance(first, ast.Expr) and isinstance(first.value, ast.Constant)
\* and isinstance(first.value.value, str), for first = body[0] of a
\* non-empty body
HasDocstring(body) ==
    /\ body # <<>>
    /\ body[1].k = "Expr"
    /\ body[1].value.k = "Constant"
    /\ body[1].value.isstr

---------------------------------------------------------------------------
(* SemanticAnalyzer.  st is the analyzer: module_name, symbols,            *)
(* current_class, current_function, edges, imports, from_imports.          *)

\* d[k] = v on a dict
\* Put keeping the value a key already has.
PutIfAbsent(d, key, v) == d @@ (key :> v)

\* `d[key] = v` on a dict
Put(d, key, v) == (key :> v) @@ d

NewAnalyzer(module_name) ==
    [ module_name |-> module_name,
      symbols |-> <<>>,
      current_class |-> None,
      current_function |-> None,
      edges |-> <<>>,
      imports |-> <<>>,
      from_imports |-> <<>> ]

\* _current_symbol_name: None at module top level
CurrentSymbolName(st) ==
    IF st.current_function = None THEN None
    ELSE IF st.current_class # None
    THEN Some(FQMethod(st.module_name, st.current_class[1], st.current_function[1]))
    ELSE Some(FQName(st.module_name, st.current_function[1]))

\* _add_edge
AddEdge(st, callee) ==
    LET caller == CurrentSymbolName(st)
    IN  IF caller = None THEN st
        ELSE [st EXCEPT !.edges =
                 Put(st.edges, caller[1], EdgesGet(st.edges, caller[1]) \cup {callee})]

\* The callee visit_Call resolves for a call of func: None when unresolved.
ResolveCallee(st, func) ==
    IF func.k = "Name"
    THEN IF func.id \in DOMAIN st.from_imports
         THEN Some(st.from_imports[func.id])
         ELSE Some(FQName(st.module_name, func.id))
    ELSE IF func.k = "Attribute" /\ func.value.k = "Name"
    THEN IF func.value.id = "self" /\ st.current_class # None
         THEN Some(FQMethod(st.module_name, st.current_class[1], func.attr))
         ELSE IF func.value.id \in DOMAIN st.imports
         THEN Some(st.imports[func.value.id] \o <<COLON, func.attr>>)
         ELSE None
    ELSE None

RECURSIVE VisitExpr(_, _)
RECURSIVE VisitExprs(_, _)

\* visit_Call, and generic_visit for the other expressions
VisitExpr(st, e) ==
    IF e.k = "Call"
    THEN LET callee == ResolveCallee(st, e.func)
             st1 == IF callee # None THEN AddEdge(st, callee[1]) ELSE st
         IN  VisitExprs(VisitExpr(st1, e.func), e.args)
    ELSE IF e.k = "Attribute" THEN VisitExpr(st, e.value)
    ELSE st

VisitExprs(st, es) ==
    IF es = <<>> THEN st ELSE VisitExprs(VisitExpr(st, Head(es)), Tail(es))

\* the name an `import` alias binds: asname, or the first component
ImportLocalName(alias) ==
    IF alias.asname # None THEN alias.asname[1] ELSE alias.name[1]

RECURSIVE BindImports(_, _, _)
\* visit_Import's loop
BindImports(st, names, i) ==
    IF i > Len(names) THEN st
    ELSE BindImports(
            [st EXCEPT !.imports = Put(st.imports, ImportLocalName(names[i]), names[i].name)],
            names, i + 1)

RECURSIVE BindFromImports(_, _, _, _)
\* visit_ImportFrom's loop
BindFromImports(st, module, names, i) ==
    IF i > Len(names) THEN st
    ELSE BindFromImports(
            [st EXCEPT !.from_imports =
                Put(st.from_imports, ImportLocalName(names[i]), module \o <<COLON>> \o names[i].name)],
            module, names, i + 1)

\* the Symbol recorded for a declaration
Symbol(type, node) == [name |-> node.name, type |-> type, node |-> node]

RECURSIVE VisitStmt(_, _)
RECURSIVE VisitStmts(_, _)

\* visit_FunctionDef and visit_AsyncFunctionDef
VisitFunctionDef(st, node) ==
    LET fqname == IF st.current_class # None
                  THEN FQMethod(st.module_name, st.current_class[1], node.name)
                  ELSE FQName(st.module_name, node.name)
        sym_type == IF st.current_class # None THEN "method" ELSE "function"
        st1 == [st EXCEPT !.symbols = Put(st.symbols, fqname, Symbol(sym_type, node)),
                          !.current_function = Some(node.name)]
        st2 == VisitStmts(st1, node.body)
    IN  [st2 EXCEPT !.current_function = st.current_function]

\* visit_ClassDef
VisitClassDef(st, node) ==
    LET fqname == FQName(st.module_name, node.name)
        st1 == [st EXCEPT !.symbols = Put(st.symbols, fqname, Symbol("class", node)),
                          !.current_class = Some(node.name)]
        st2 == VisitStmts(st1, node.body)
    IN  [st2 EXCEPT !.current_class = st.current_class]

VisitStmt(st, s) ==
    IF IsFunction(s) THEN VisitFunctionDef(st, s)
    ELSE IF s.k = "ClassDef" THEN VisitClassDef(st, s)
    ELSE IF s.k = "Import" THEN BindImports(st, s.names, 1)
    ELSE IF s.k = "ImportFrom"
    THEN IF s.module = None THEN st ELSE BindFromImports(st, s.module, s.names, 1)
    ELSE IF s.k \in {"Expr", "Assign"} THEN VisitExpr(st, s.value)
    ELSE IF s.k = "If" THEN VisitStmts(VisitStmts(st, s.body), s.orelse)
    ELSE st

VisitStmts(st, stmts) ==
    IF stmts = <<>> THEN st ELSE VisitStmts(VisitStmt(st, Head(stmts)), Tail(stmts))

\* analyzer = SemanticAnalyzer(module_name); analyzer.visit(tree)
Analyze(module_name, tree) == VisitStmts(NewAnalyzer(module_name), tree.body)

\* analyze_module: the fully-qualified names a module declares
DeclaredNames(module_name, tree) == DOMAIN Analyze(module_name, tree).symbols

\* build_call_graph's merge loop over modules[i..]: cg holds nodes and edges
RECURSIVE MergeModules(_, _, _)
MergeModules(cg, mods, i) ==
    IF i > Len(mods) THEN cg
    ELSE LET a == Analyze(mods[i].name, mods[i].tree)
             merged ==
                 [ caller \in DOMAIN cg.edges \cup DOMAIN a.edges |->
                     EdgesGet(cg.edges, caller) \cup EdgesGet(a.edges, caller) ]
         IN  MergeModules([nodes |-> a.symbols @@ cg.nodes, edges |-> merged], mods, i + 1)

---------------------------------------------------------------------------
(* PruneTransformer.  p holds the transformer's parameters: module_name,   *)
(* reachable_symbols, keep_docstrings, entry_function; cls is              *)
(* self.current_class at the node.                                         *)

\* _symbol_name
SymbolName(p, cls, name) ==
    IF cls # None THEN FQMethod(p.module_name, cls[1], name)
    ELSE FQName(p.module_name, name)

\* _class_symbol
ClassSymbol(p, class_name) == FQName(p.module_name, class_name)

\* `(not self.current_class) and self.entry_function == original_name`
IsEntryFunction(p, cls, name) ==
    cls = None /\ p.entry_function = Some(<<name>>)

\* KeepFunction without the rule that always keeps the entrypoint function.
KeepFunctionReachableOnly(p, cls, name) ==
    \/ SymbolName(p, cls, name) \in p.reachable_symbols
    \/ /\ cls # None
       /\ name = "__init__"
       /\ ClassSymbol(p, cls[1]) \in p.reachable_symbols

\* KeepFunction, keeping every method of a class.
KeepFunctionAllMethods(p, cls, name) ==
    \/ SymbolName(p, cls, name) \in p.reachable_symbols
    \/ IsEntryFunction(p, cls, name)
    \/ cls # None

\* KeepFunction keeping every function.
KeepFunctionAlways(p, cls, name) == TRUE

\* KeepFunction without the test of the reachable set.
KeepFunctionEntryOnly(p, cls, name) == IsEntryFunction(p, cls, name)

\* visit_FunctionDef's `keep`
KeepFunction(p, cls, name) ==
    \/ SymbolName(p, cls, name) \in p.reachable_symbols
    \/ IsEntryFunction(p, cls, name)
    \/ /\ cls # None
       /\ name = "__init__"
       /\ ClassSymbol(p, cls[1]) \in p.reachable_symbols

\* The name visit_FunctionDef leaves on a kept declaration.
PrunedName(p, cls, name) ==
    IF IsEntryFunction(p, cls, name) THEN name \o SUFFIX ELSE name

\* StripDocstring without the test of keep_docstrings.
StripDocstringAlways(keep, body) ==
    IF HasDocstring(body) THEN Tail(body) ELSE body

\* StripDocstring removing every leading string-literal statement.
RECURSIVE StripDocstringAll(_, _)
StripDocstringAll(keep, body) ==
    IF ~keep /\ HasDocstring(body) THEN StripDocstringAll(keep, Tail(body)) ELSE body

\* `node.body = node.body[1:]` when docstrings go and the body starts with one
StripDocstring(keep, body) ==
    IF ~keep /\ HasDocstring(body) THEN Tail(body) ELSE body

\* OrPass without the placeholder.
OrPassNever(body) == body

\* `if not node.body: node.body = [ast.Pass()]`
OrPass(body) == IF body = <<>> THEN <<Pass>> ELSE body

\* Each Prune operator returns the list that replaces the node in its
\* parent's body: empty when the visitor returns None.
RECURSIVE PruneList(_, _, _)
RECURSIVE PruneStmt(_, _, _)

\* visit_FunctionDef and visit_AsyncFunctionDef
PruneFunctionDef(p, cls, node) ==
    IF ~KeepFunction(p, cls, node.name) THEN <<>>
    ELSE LET body == OrPass(StripDocstring(p.keep_docstrings, node.body))
         IN  << [node EXCEPT !.name = PrunedName(p, cls, node.name),
                             !.body = PruneList(p, cls, body)] >>

\* KeepClass keeping every class.
KeepClassAlways(p, class_name, body) == TRUE

\* KeepClass without the test for remaining methods.
KeepClassReachableOnly(p, class_name, body) ==
    ClassSymbol(p, class_name) \in p.reachable_symbols

\* visit_ClassDef's decision, on the pruned and stripped body
KeepClass(p, class_name, body) ==
    \/ ClassSymbol(p, class_name) \in p.reachable_symbols
    \/ \E i \in DOMAIN body : IsFunction(body[i])

\* visit_ClassDef
PruneClassDef(p, cls, node) ==
    LET pruned == PruneList(p, Some(node.name), node.body)
        body == StripDocstring(p.keep_docstrings, pruned)
    IN  IF ~KeepClass(p, node.name, body) THEN <<>>
        ELSE << [node EXCEPT !.body = OrPass(body)] >>

\* NodeTransformer.visit on one statement; generic_visit for the kinds
\* without a visitor of their own
PruneStmt(p, cls, s) ==
    IF IsFunction(s) THEN PruneFunctionDef(p, cls, s)
    ELSE IF s.k = "ClassDef" THEN PruneClassDef(p, cls, s)
    ELSE IF s.k = "If"
    THEN << [s EXCEPT !.body = PruneList(p, cls, s.body),
                      !.orelse = PruneList(p, cls, s.orelse)] >>
    ELSE <<s>>

\* generic_visit over a list of statements
PruneList(p, cls, stmts) ==
    IF stmts = <<>> THEN <<>>
    ELSE PruneStmt(p, cls, Head(stmts)) \o PruneList(p, cls, Tail(stmts))

\* visit_Module
PruneModuleTree(p, node) ==
    LET body == IF ~p.keep_docstrings /\ HasDocstring(node.body)
                THEN OrPass(Tail(node.body))
                ELSE node.body
    IN  [node EXCEPT !.body = PruneList(p, None, body)]

---------------------------------------------------------------------------
(* ImportRewriter and the module rename map *)

\* _suffix_module_name: SUFFIX on every component of the dotted name
SuffixModuleName(module_name) ==
    [ i \in DOMAIN module_name |->
        IF module_name[i] = DOT THEN DOT ELSE module_name[i] \o SUFFIX ]

\* {name: _suffix_module_name(name) for name in modules.keys()}
ModuleRenames(mods) ==
    [ name \in { mods[i].name : i \in DOMAIN mods } |-> SuffixModuleName(name) ]

\* RewriteImportFrom leaving every from-import as it is.
RewriteImportFromNever(renames, node) == node

\* visit_ImportFrom
RewriteImportFrom(renames, node) ==
    IF node.module # <<>> /\ node.module \in DOMAIN renames
    THEN [node EXCEPT !.module = renames[node.module]]
    ELSE node

\* visit_Import
RewriteImport(renames, node) ==
    [node EXCEPT !.names =
        [ i \in DOMAIN node.names |->
            IF node.names[i].name \in DOMAIN renames
            THEN [node.names[i] EXCEPT !.name = renames[node.names[i].name]]
            ELSE node.names[i] ]]

RECURSIVE RewriteList(_, _)

RewriteStmt(renames, s) ==
    IF s.k = "Import" THEN RewriteImport(renames, s)
    ELSE IF s.k = "ImportFrom" THEN RewriteImportFrom(renames, s)
    ELSE IF IsFunction(s) \/ s.k = "ClassDef"
    THEN [s EXCEPT !.body = RewriteList(renames, s.body)]
    ELSE IF s.k = "If"
    THEN [s EXCEPT !.body = RewriteList(renames, s.body),
                   !.orelse = RewriteList(renames, s.orelse)]
    ELSE s

RewriteList(renames, stmts) ==
    [ i \in DOMAIN stmts |-> RewriteStmt(renames, stmts[i]) ]

RewriteModuleTree(renames, node) ==
    [node EXCEPT !.body = RewriteList(renames, node.body)]

---------------------------------------------------------------------------
(* optimize_project: the per-module loop *)

\* entry_module, entry_func = entrypoint.split(":", 1)
EntryModule(ep) == Before(COLON, ep)
EntryFunc(ep) == After(COLON, ep)

\* The PruneTransformer optimize_project builds for a module.
PrunerFor(mod_name) ==
    [ module_name |-> mod_name,
      reachable_symbols |-> closed,
      keep_docstrings |-> keep_docstrings,
      entry_function |->
          IF mod_name = EntryModule(entrypoint)
          THEN Some(EntryFunc(entrypoint)) ELSE None ]

\* _output_path_for_module, relative to out_root: the components of the
\* renamed name (packages are not modelled)
OutputPathForModule(new_module_name) == new_module_name

\* One iteration of `for mod_name, mi in modules.items()`: prune, rewrite
\* the imports, and write the file unless the run is a dry run.
PruneModule ==
    /\ pc = "prune"
    /\ todo # <<>>
    /\ LET mi == Head(todo)
           new_tree == PruneModuleTree(PrunerFor(mi.name), mi.tree)
       IN  out' = out @@ (mi.name :> RewriteModuleTree(module_renames, new_tree))
    /\ written' = IF dry_run THEN written
                  ELSE written \cup {OutputPathForModule(module_renames[Head(todo).name])}
    /\ todo' = Tail(todo)
    /\ UNCHANGED <<pc, entrypoint, graphVars, modules, keep_docstrings, module_renames,
                   minified, stripped, dry_run, out_root_made>>

\* The loop is over.
PruneEnd ==
    /\ pc = "prune"
    /\ todo = <<>>
    /\ pc' = "done"
    /\ UNCHANGED <<entrypoint, graphVars, treeVars, fsVars>>

---------------------------------------------------------------------------
(* optimize_project, from the entrypoint check to the per-module loop *)

\* EntrypointError without the check that the entry module was discovered.
EntrypointErrorFormatOnly(ep, names) == ~Contains(COLON, ep)

\* The two tests that raise ValueError: `":" not in entrypoint`, and
\* `entry_module not in modules` for the module part of the split
EntrypointError(ep, names) ==
    \/ ~Contains(COLON, ep)
    \/ EntryModule(ep) \notin names

\* The entrypoint check, and the check that the entry module was discovered
\* (_discover_modules is the modules of the state): a ValueError ends the run.
Validate ==
    /\ pc = "start"
    /\ pc' = IF EntrypointError(entrypoint, { modules[i].name : i \in DOMAIN modules })
             THEN "error"
             ELSE "build"
    /\ UNCHANGED <<entrypoint, graphVars, treeVars, fsVars>>

\* build_call_graph up to the traversal: the symbols and edges of every
\* module, merged, and the work list holding the entrypoint
BuildCallGraph ==
    /\ pc = "build"
    /\ LET cg == MergeModules([nodes |-> <<>>, edges |-> <<>>], modules, 1)
       IN  /\ nodes' = cg.nodes
           /\ edges' = cg.edges
    /\ stack' = <<entrypoint>>
    /\ reachable' = {}
    /\ expansions' = <<>>
    /\ pc' = "traverse"
    /\ UNCHANGED <<entrypoint, closed, treeVars, fsVars>>

\* Steps 4 and 5: the rename map of every discovered module, and the
\* output directory unless the run is a dry run; the loop starts
Prepare ==
    /\ pc = "closed"
    /\ modules # <<>>
    /\ module_renames' = ModuleRenames(modules)
    /\ out_root_made' = (out_root_made \/ ~dry_run)
    /\ todo' = modules
    /\ pc' = "prune"
    /\ UNCHANGED <<entrypoint, graphVars, modules, keep_docstrings, out, minified, stripped,
                   dry_run, written>>

---------------------------------------------------------------------------
(* MinifierTransformer (minify-only mode) *)

RECURSIVE MinifyList(_, _)

\* visit_FunctionDef, visit_AsyncFunctionDef and visit_ClassDef
MinifyDecl(keep, node) ==
    [node EXCEPT !.body = MinifyList(keep, OrPass(StripDocstring(keep, node.body)))]

MinifyStmt(keep, s) ==
    IF IsFunction(s) \/ s.k = "ClassDef" THEN MinifyDecl(keep, s)
    ELSE IF s.k = "If"
    THEN [s EXCEPT !.body = MinifyList(keep, s.body),
                   !.orelse = MinifyList(keep, s.orelse)]
    ELSE s

\* generic_visit over a list of statements: no visitor returns None
MinifyList(keep, stmts) ==
    [ i \in DOMAIN stmts |-> MinifyStmt(keep, stmts[i]) ]

\* visit_Module
MinifyTree(keep, node) ==
    [node EXCEPT !.body = MinifyList(keep, StripDocstring(keep, node.body))]

(* DocstringRemover (the earlier minifier): children first, then the body's *)
(* own docstring, and no placeholder                                        *)

\* _strip_docstring
StripDocstringOf(body) == IF HasDocstring(body) THEN Tail(body) ELSE body

RECURSIVE RemoveList(_)

RemoveStmt(s) ==
    IF IsFunction(s) \/ s.k = "ClassDef"
    THEN [s EXCEPT !.body = StripDocstringOf(RemoveList(s.body))]
    ELSE IF s.k = "If"
    THEN [s EXCEPT !.body = RemoveList(s.body), !.orelse = RemoveList(s.orelse)]
    ELSE s

RemoveList(stmts) == [ i \in DOMAIN stmts |-> RemoveStmt(stmts[i]) ]

\* minify_module
MinifyModule(node) == [node EXCEPT !.body = StripDocstringOf(RemoveList(node.body))]

MaxPasses == 2

\* minify_code on the source, or on what the pass before it gave
MinifyPass ==
    /\ pc = "minify"
    /\ Len(minified) < MaxPasses
    /\ LET tree == IF minified = <<>> THEN modules[1].tree ELSE minified[Len(minified)]
       IN  minified' = Append(minified, MinifyTree(keep_docstrings, tree))
    /\ UNCHANGED <<pc, entrypoint, graphVars, modules, keep_docstrings,
                   module_renames, todo, out, stripped, fsVars>>

\* minify_module on the source, or on what the pass before it gave
RemovePass ==
    /\ pc = "minify"
    /\ Len(stripped) < MaxPasses
    /\ LET tree == IF stripped = <<>> THEN modules[1].tree ELSE stripped[Len(stripped)]
       IN  stripped' = Append(stripped, MinifyModule(tree))
    /\ UNCHANGED <<pc, entrypoint, graphVars, modules, keep_docstrings,
                   module_renames, todo, out, minified, fsVars>>

---------------------------------------------------------------------------
(* Call graphs over a small universe of names *)

MaxEdges == 3

GM == <<"m">>
GFunc == FQName(GM, "f")
GClass == FQName(GM, "C")
GMeth == FQMethod(GM, "C", "g")
GInit == FQMethod(GM, "C", "__init__")

GraphNames == {GFunc, GClass, GMeth, GInit}

\* The entrypoint handed to build_call_graph, which does not validate it.
GraphEntries == GraphNames \cup {<<"f">>}

\* the symbol table's entry for a name of the universe
GraphSymbol(n) ==
    [ name |-> n[Len(n)],
      type |-> IF n = GClass THEN "class" ELSE IF n = GFunc THEN "function" ELSE "method",
      node |-> IF n = GClass THEN ClassDef(n[Len(n)], <<Pass>>)
               ELSE FunctionDef(n[Len(n)], <<Pass>>) ]

EdgeSets == { E \in SUBSET (GraphNames \X GraphNames) : Cardinality(E) <= MaxEdges }

\* The dict of a set of edges; `empty` are the callers with an empty entry.
EdgeMap(E, empty) ==
    [ caller \in { e[1] : e \in E } \cup empty |->
        { e[2] : e \in { d \in E : d[1] = caller } } ]

InitGraph ==
    /\ pc = "traverse"
    /\ entrypoint \in GraphEntries
    /\ \E declared \in { GraphNames \ {GInit}, GraphNames } :
         nodes = [ n \in declared |-> GraphSymbol(n) ]
    /\ \E E \in EdgeSets, empty \in SUBSET GraphNames : edges = EdgeMap(E, empty)
    /\ stack = <<entrypoint>>
    /\ reachable = {}
    /\ closed = {}
    /\ expansions = <<>>
    /\ dry_run = FALSE
    /\ out_root_made = FALSE
    /\ written = {}
    /\ modules = <<>>
    /\ keep_docstrings = FALSE
    /\ module_renames = <<>>
    /\ todo = <<>>
    /\ out = <<>>
    /\ minified = <<>>
    /\ stripped = <<>>

NextGraph == TraverseStep \/ TraverseEnd \/ Closure

SpecGraph == InitGraph /\ [][NextGraph]_vars

\* The loop and the call after it are sequential code: a step that can be
\* taken is taken.
SpecGraphFair ==
    /\ InitGraph
    /\ [][NextGraph]_vars
    /\ WF_vars(TraverseStep)
    /\ WF_vars(TraverseEnd)
    /\ WF_vars(Closure)

---------------------------------------------------------------------------
(* Modules handed to the Pruner: declarations, nested declarations and     *)
(* documentation literals                                                  *)

MaxDocs == 2

\* k string-literal statements
Docs(k) == [ i \in 1..k |-> DocStmt ]

\* x = "text"
Other == Assign(StrConst)

\* a bare number as a statement
NumStmt == Expr(NumConst)

LeafBodies ==
    { Docs(k) \o t : k \in 0..MaxDocs, t \in {<<>>, <<Other>>, <<NumStmt>>} } \ {<<>>}

ShortBodies == { <<DocStmt>>, <<Other>> }

\* declarations nested in a function or in a method
InnerDecls ==
    { FunctionDef(n, b) : n \in {"handler", "h"}, b \in ShortBodies }
    \cup { ClassDef("D", <<FunctionDef("h", <<Other>>)>>) }

FunctionDecls ==
    { FunctionDef(n, b) : n \in {"handler", "g"}, b \in LeafBodies }
    \cup { AsyncFunctionDef(n, b) : n \in {"handler", "g"}, b \in ShortBodies }
    \cup { FunctionDef(n, pre \o <<inner>>) :
             n \in {"handler", "g"}, pre \in {<<>>, <<DocStmt>>}, inner \in InnerDecls }

Methods ==
    { FunctionDef(n, b) : n \in {"__init__", "g"}, b \in ShortBodies }

ClassMembers ==
    { <<>>, <<Other>> }
    \cup { <<m>> : m \in Methods }
    \cup { <<FunctionDef("__init__", <<Other>>), FunctionDef("g", <<Other>>)>>,
           <<FunctionDef("g", <<Other>>), DocStmt>>,
           <<FunctionDef("g", <<FunctionDef("h", <<Other>>)>>)>>,
           <<ClassDef("D", <<FunctionDef("h", <<Other>>)>>)>>,
           <<ClassDef("D", <<FunctionDef("h", <<Other>>)>>), FunctionDef("g", <<Other>>)>>,
           <<If(<<FunctionDef("g", <<Other>>)>>, <<>>)>> }

ClassDecls ==
    { ClassDef("C", b) :
        b \in { Docs(k) \o ms : k \in 0..MaxDocs, ms \in ClassMembers } \ {<<>>} }

TopStmts ==
    FunctionDecls \cup ClassDecls
    \cup { Other,
           If(<<FunctionDef("g", <<Other>>)>>, <<FunctionDef("handler", <<Other>>)>>) }

PairStmts ==
    { FunctionDef("handler", <<Other>>), FunctionDef("g", <<DocStmt>>),
      ClassDef("C", <<FunctionDef("__init__", <<Other>>)>>),
      ClassDef("handler", <<Other>>), Other }

DeclTrees ==
    { Module(Docs(k) \o <<t>>) : k \in 0..MaxDocs, t \in TopStmts }
    \cup { Module(Docs(k)) : k \in 0..MaxDocs }
    \cup { Module(<<t1, t2>>) : t1 \in PairStmts, t2 \in PairStmts }

(* Modules of import statements, for the Import Rewriter *)

ModApp == <<"app">>
ModLib == <<"lib">>
ModPkgIo == <<"pkg", DOT, "io">>
ModOs == <<"os">>

ImportAliases ==
    { Alias(m, a) : m \in {ModLib, ModPkgIo, ModOs, <<"pkg">>}, a \in {None} }
    \cup { Alias(ModLib, Some("l")) }

ImportStmts ==
    { Import(<<a>>) : a \in ImportAliases }
    \cup { Import(<<a, b>>) : a \in ImportAliases, b \in {Alias(ModLib, None), Alias(ModOs, None)} }
    \cup { ImportFrom(m, <<Alias(<<"f">>, None)>>) :
             m \in {ModLib, ModPkgIo, ModOs, None} }

ImportTrees ==
    { Module(<<s>>) : s \in ImportStmts }
    \cup { Module(<<FunctionDef("handler", <<s>>)>>) : s \in ImportStmts }
    \cup { Module(<<If(<<s>>, <<t>>)>>) :
             s \in ImportStmts, t \in {ImportFrom(ModLib, <<Alias(<<"f">>, None)>>)} }

\* a discovered module with an empty source file
EmptyModule(name) == [name |-> name, tree |-> Module(<<>>)]

OtherModules ==
    { <<>>, <<EmptyModule(ModLib)>>, <<EmptyModule(ModLib), EmptyModule(ModPkgIo)>> }

PruneEntrypoints == { FQName(ModApp, "handler"), FQName(ModLib, "handler") }

\* The per-module loop starts on module app, with any reachable set over
\* the names the module declares.
InitPrune ==
    /\ pc = "prune"
    /\ entrypoint \in PruneEntrypoints
    /\ keep_docstrings \in BOOLEAN
    /\ \/ \E t \in DeclTrees :
            /\ modules = <<[name |-> ModApp, tree |-> t]>>
            /\ closed \in SUBSET DeclaredNames(ModApp, t)
       \/ \E t \in ImportTrees, others \in OtherModules :
            /\ modules = <<[name |-> ModApp, tree |-> t]>> \o others
            /\ closed = {}
    /\ module_renames = ModuleRenames(modules)
    /\ todo = modules
    /\ out = <<>>
    /\ nodes = <<>>
    /\ edges = <<>>
    /\ stack = <<>>
    /\ reachable = {}
    /\ expansions = <<>>
    /\ minified = <<>>
    /\ stripped = <<>>
    /\ dry_run \in BOOLEAN
    /\ out_root_made = ~dry_run
    /\ written = {}

NextPrune == PruneModule \/ PruneEnd

SpecPrune == InitPrune /\ [][NextPrune]_vars

\* Minify-only mode: one source file, no entrypoint.
InitStrip ==
    /\ pc = "minify"
    /\ entrypoint = <<>>
    /\ keep_docstrings \in BOOLEAN
    /\ \E t \in DeclTrees : modules = <<[name |-> ModApp, tree |-> t]>>
    /\ module_renames = <<>>
    /\ todo = <<>>
    /\ out = <<>>
    /\ nodes = <<>>
    /\ edges = <<>>
    /\ stack = <<>>
    /\ reachable = {}
    /\ closed = {}
    /\ expansions = <<>>
    /\ minified = <<>>
    /\ stripped = <<>>
    /\ dry_run = FALSE
    /\ out_root_made = FALSE
    /\ written = {}

NextStrip == MinifyPass \/ RemovePass

SpecStrip == InitStrip /\ [][NextStrip]_vars

\* The tool is run in one of its two modes: with an entry point (the
\* Pruner) or without one (minify only).
InitModes == InitPrune \/ InitStrip

NextModes == PruneModule \/ PruneEnd \/ MinifyPass \/ RemovePass

SpecModes == InitModes /\ [][NextModes]_vars

(* Projects of two modules, app and lib, for the whole pipeline *)

MaxCalls == 2

NoArgs == <<>>

\* df = DataFrame(...)
CallDataFrame == Assign(Call(Name("DataFrame"), NoArgs))
\* head = df.head(3)
CallDfHead == Assign(Call(Attribute(Name("df"), "head"), NoArgs))
\* head.sum()
CallHeadSum == Expr(Call(Attribute(Name("head"), "sum"), NoArgs))
\* lib.helper()
CallLibHelper == Expr(Call(Attribute(Name("lib"), "helper"), NoArgs))
\* local()
CallLocal == Expr(Call(Name("local"), NoArgs))
\* local(DataFrame())
CallNested == Expr(Call(Name("local"), <<Call(Name("DataFrame"), NoArgs)>>))
\* lib.x.helper()
CallChained == Expr(Call(Attribute(Attribute(Name("lib"), "x"), "helper"), NoArgs))

\* handler()
CallHandler == Expr(Call(Name("handler"), NoArgs))

CallStmts ==
    <<CallDataFrame, CallDfHead, CallHeadSum, CallLibHelper, CallLocal, CallNested, CallChained>>

\* the statements of s at the positions I, in order
RECURSIVE Pick(_, _, _)
Pick(s, I, i) ==
    IF i > Len(s) THEN <<>>
    ELSE (IF i \in I THEN <<s[i]>> ELSE <<>>) \o Pick(s, I, i + 1)

\* examples/example1/app.py's handler
ScenarioABody == <<DocStmt, CallDataFrame, CallDfHead, CallHeadSum>>

HandlerBodies ==
    { ScenarioABody, <<Other>>, <<CallHandler>> }
    \cup { Pick(CallStmts, I, 1) :
             I \in { J \in SUBSET DOMAIN CallStmts : J # {} /\ Cardinality(J) <= MaxCalls } }

FromLibDataFrame == ImportFrom(ModLib, <<Alias(<<"DataFrame">>, None)>>)
ImportLib == Import(<<Alias(ModLib, None)>>)

AppImports == { <<>>, <<FromLibDataFrame>>, <<ImportLib>>, <<FromLibDataFrame, ImportLib>> }

AppExtras ==
    { <<>>,
      <<FunctionDef("local", <<CallLibHelper>>)>>,
      <<AsyncFunctionDef("local", <<DocStmt, CallLibHelper>>)>>,
      <<AsyncFunctionDef("handler", <<DocStmt>>)>> }

AppTrees ==
    { Module(i \o <<FunctionDef("handler", b)>> \o x) :
        i \in AppImports, b \in HandlerBodies, x \in AppExtras }

MethodInit == FunctionDef("__init__", <<Other>>)
\* return DataFrame(self.data[:n])
MethodHead == FunctionDef("head", <<DocStmt, Expr(Call(Name("DataFrame"), NoArgs))>>)
\* return self.sum()
MethodHeadSelf == FunctionDef("head", <<Expr(Call(Attribute(Name("self"), "sum"), NoArgs))>>)
\* return sum(self.data)
MethodSum == FunctionDef("sum", <<DocStmt, Expr(Call(Name("sum"), NoArgs))>>)
\* print("I am dead code")
MethodUnused == FunctionDef("unused", <<DocStmt, Expr(Call(Name("print"), NoArgs))>>)

FunctionHelper == FunctionDef("helper", <<Expr(Call(Name("DataFrame"), NoArgs))>>)

\* the class of Scenario A: __init__, head, sum and unused
ScenarioALib ==
    Module(<<ClassDef("DataFrame", <<DocStmt, MethodInit, MethodHead, MethodSum, MethodUnused>>)>>)

LibTrees ==
    { ScenarioALib,
      Module(<<ClassDef("DataFrame", <<MethodHead, MethodSum, MethodUnused>>)>>),
      Module(<<ClassDef("DataFrame", <<MethodInit, MethodHeadSelf, MethodSum>>), FunctionHelper>>),
      Module(<<FunctionHelper>>) }

ProjectEntrypoints ==
    { FQName(ModApp, "handler"), FQName(ModLib, "helper"),
      FQMethod(ModLib, "DataFrame", "head"),
      <<"handler">>, FQName(<<"main">>, "handler") }

\* optimize_project is called on a discovered project.
Init ==
    /\ pc = "start"
    /\ entrypoint \in ProjectEntrypoints
    /\ keep_docstrings \in BOOLEAN
    /\ \E a \in AppTrees, l \in LibTrees :
         modules = <<[name |-> ModApp, tree |-> a], [name |-> ModLib, tree |-> l]>>
    /\ module_renames = <<>>
    /\ todo = <<>>
    /\ out = <<>>
    /\ nodes = <<>>
    /\ edges = <<>>
    /\ stack = <<>>
    /\ reachable = {}
    /\ closed = {}
    /\ expansions = <<>>
    /\ minified = <<>>
    /\ stripped = <<>>
    /\ dry_run \in BOOLEAN
    /\ out_root_made = FALSE
    /\ written = {}

(* Modules for the analyzer: calls at every lexical position, and       *)
(* from-imports before and after them                                  *)

MaxUnits == 2

\* make()
CallMake == Expr(Call(Name("make"), NoArgs))
\* mk()
CallMk == Expr(Call(Name("mk"), NoArgs))
\* x = helper()
CallHelper == Assign(Call(Name("helper"), NoArgs))
\* self.h()
CallSelfH == Expr(Call(Attribute(Name("self"), "h"), NoArgs))

\* make().run()
CallMakeRun == Expr(Call(Attribute(Call(Name("make"), NoArgs), "run"), NoArgs))

\* from lib import make
FromLibMake == ImportFrom(ModLib, <<Alias(<<"make">>, None)>>)
\* from lib import make as mk
FromLibMakeAs == ImportFrom(ModLib, <<Alias(<<"make">>, Some("mk"))>>)

AnalyzeUnits ==
    { FunctionDef("handler", <<c>>) :
        c \in {CallMake, CallMk, CallHelper, CallLibHelper, CallChained, CallMakeRun} }
    \cup { FunctionDef("handler", <<ClassDef("D", <<CallHelper>>)>>),
           FunctionDef("handler", <<FunctionDef("h", <<CallMake>>), CallHelper>>),
           FunctionDef("handler", <<FromLibMake, CallMake>>),
           ClassDef("C", <<FunctionDef("g", <<CallSelfH>>), CallHelper>>),
           ClassDef("C", <<FunctionDef("g", <<FunctionDef("h", <<CallMake>>)>>)>>),
           ClassDef("C", <<FunctionDef("g", <<ClassDef("D", <<CallHelper>>), CallMake>>)>>),
           FunctionDef("helper", <<Other>>),
           CallHelper,
           If(<<CallMake>>, <<FunctionDef("g", <<CallMake>>)>>) }

UnitLists ==
    UNION { [1..n -> AnalyzeUnits] : n \in 1..MaxUnits }

AnalyzeTrees ==
    { Module(pre \o us \o post) :
        pre \in {<<>>, <<FromLibMake>>, <<FromLibMakeAs>>, <<ImportLib>>},
        us \in UnitLists,
        post \in {<<>>, <<FromLibMake>>, <<ImportLib>>} }

\* build_call_graph is called on one parsed module.
InitAnalyze ==
    /\ pc = "build"
    /\ entrypoint = FQName(ModApp, "handler")
    /\ keep_docstrings = FALSE
    /\ \E t \in AnalyzeTrees : modules = <<[name |-> ModApp, tree |-> t]>>
    /\ module_renames = <<>>
    /\ todo = <<>>
    /\ out = <<>>
    /\ nodes = <<>>
    /\ edges = <<>>
    /\ stack = <<>>
    /\ reachable = {}
    /\ closed = {}
    /\ expansions = <<>>
    /\ minified = <<>>
    /\ stripped = <<>>
    /\ dry_run = FALSE
    /\ out_root_made = FALSE
    /\ written = {}

NextAnalyze == BuildCallGraph \/ TraverseStep \/ TraverseEnd \/ Closure

SpecAnalyze == InitAnalyze /\ [][NextAnalyze]_vars

Next ==
    \/ Validate
    \/ BuildCallGraph
    \/ TraverseStep
    \/ TraverseEnd
    \/ Closure
    \/ Prepare
    \/ PruneModule
    \/ PruneEnd

Spec == Init /\ [][Next]_vars

---------------------------------------------------------------------------
(* Properties of the traversal and of the closure *)

\* A name of the form "<m>:<C>.<f>": a "." after the first ":".
IsMethodName(n) == Contains(COLON, n) /\ Contains(DOT, After(COLON, n))

\* "<m>:<C>" of "<m>:<C>.<f>"
OwnerOf(n) == SubSeq(n, 1, FirstIndex(COLON, n) + FirstIndex(DOT, After(COLON, n)) - 1)

\* "<m>:<C>.__init__" of "<m>:<C>"
CtorOf(c) == c \o <<DOT, "__init__">>

\* "<m>:<f>": one ":" separator and a plain name after it
IsPlainName(n) ==
    /\ Contains(COLON, n)
    /\ Len(After(COLON, n)) = 1
    /\ After(COLON, n)[1] \notin {COLON, DOT}

\* The names joined to `start` by a path of zero or more edges.
RECURSIVE Grow(_, _)
Grow(e, S) ==
    LET T == S \cup UNION { EdgesGet(e, n) : n \in S }
    IN  IF T = S THEN S ELSE Grow(e, T)

PathReachable(e, start) == Grow(e, {start})

\* C1: after the closure step, every method name "<m>:<C>.<f>" of the
\* returned set has its owning class "<m>:<C>" in the returned set.
C1_OwnerClassClosed ==
    pc = "closed" =>
        \A n \in closed : IsMethodName(n) => OwnerOf(n) \in closed

\* A method was reached whose class the traversal did not reach, and the
\* closure step has added the class.
C1_Witness ==
    /\ pc = "closed"
    /\ GMeth \in reachable
    /\ GClass \notin reachable
    /\ GClass \in closed

\* C2: a class name of the reachable set whose constructor is in the symbol
\* table has its constructor in the set the closure step returns.
C2_ConstructorRetained ==
    pc = "closed" =>
        \A c \in closed : CtorOf(c) \in DOMAIN nodes => CtorOf(c) \in closed

\* C8: when the edge map has no callee for the entry function (its key
\* missing or empty), the traversal ends with the reachable set
\* {entrypoint}, and the closure step returns the same singleton.
C8_SingletonEntry ==
    (IsPlainName(entrypoint) /\ EdgesGet(edges, entrypoint) = {}) =>
        /\ pc = "close" => reachable = {entrypoint}
        /\ pc = "closed" => closed = {entrypoint}

\* The entry name is no key of the edge map, other callers have edges, and
\* the closure step has run.
C8_Witness ==
    /\ pc = "closed"
    /\ entrypoint = GFunc
    /\ entrypoint \notin DOMAIN edges
    /\ DOMAIN edges # {}
    /\ closed = {GFunc}

\* C10: whichever position of the work list each step takes, the traversal
\* ends with exactly the names joined to the entry name by a path of zero
\* or more edges.
C10_OrderImmaterial ==
    pc \in {"close", "closed"} => reachable = PathReachable(edges, entrypoint)

\* A traversal over a cycle through three names has ended.
C10_Witness ==
    /\ pc = "close"
    /\ entrypoint = GFunc
    /\ GMeth \in EdgesGet(edges, GFunc)
    /\ GInit \in EdgesGet(edges, GMeth)
    /\ GFunc \in EdgesGet(edges, GInit)
    /\ reachable = {GFunc, GMeth, GInit}

---------------------------------------------------------------------------
(* Properties of the Pruner and of the Import Rewriter *)

\* the function, method and class declarations of a body, at any depth
RECURSIVE DeclsIn(_)
DeclsIn(stmts) ==
    IF stmts = <<>> THEN {}
    ELSE LET s == Head(stmts)
             here == IF IsFunction(s) \/ s.k = "ClassDef" THEN {s} \cup DeclsIn(s.body)
                     ELSE IF s.k = "If" THEN DeclsIn(s.body) \cup DeclsIn(s.orelse)
                     ELSE {}
         IN  here \cup DeclsIn(Tail(stmts))

\* the names of the methods of a class body: the functions declared in it
\* outside any nested class
RECURSIVE MethodNamesIn(_)
MethodNamesIn(stmts) ==
    IF stmts = <<>> THEN {}
    ELSE LET s == Head(stmts)
             here == IF IsFunction(s) THEN {s.name} \cup MethodNamesIn(s.body)
                     ELSE IF s.k = "If" THEN MethodNamesIn(s.body) \cup MethodNamesIn(s.orelse)
                     ELSE {}
         IN  here \cup MethodNamesIn(Tail(stmts))

\* the import statements of a body, at any depth, in source order
RECURSIVE ImportsIn(_)
ImportsIn(stmts) ==
    IF stmts = <<>> THEN <<>>
    ELSE LET s == Head(stmts)
             here == IF s.k \in {"Import", "ImportFrom"} THEN <<s>>
                     ELSE IF IsFunction(s) \/ s.k = "ClassDef" THEN ImportsIn(s.body)
                     ELSE IF s.k = "If" THEN ImportsIn(s.body) \o ImportsIn(s.orelse)
                     ELSE <<>>
         IN  here \o ImportsIn(Tail(stmts))

Discovered == { modules[i].name : i \in DOMAIN modules }

ModuleTree(name) == (CHOOSE i \in DOMAIN modules : modules[i].name = name)

\* The entry module declares the entry function at its top level.
DeclaresEntry(mi) ==
    /\ mi.name = EntryModule(entrypoint)
    /\ \E j \in DOMAIN mi.tree.body :
         IsFunction(mi.tree.body[j]) /\ <<mi.tree.body[j].name>> = EntryFunc(entrypoint)

\* C3: when the entry module declares the entry function at top level, the
\* pruned tree of the module has that declaration at top level, named with
\* the suffix "__ma", whatever the reachable set.
C3_EntryPreserved ==
    pc = "done" =>
        \A i \in DOMAIN modules :
            LET mi == modules[i]
            IN  mi.name = EntryModule(entrypoint) =>
                  \A j \in DOMAIN mi.tree.body :
                     LET s == mi.tree.body[j]
                     IN  (IsFunction(s) /\ <<s.name>> = EntryFunc(entrypoint)) =>
                            \E n \in DOMAIN out[mi.name].body :
                               /\ out[mi.name].body[n].k = s.k
                               /\ out[mi.name].body[n].name = s.name \o SUFFIX

\* The entry function was pruned with an empty reachable set, and is there.
C3_Witness ==
    /\ pc = "done"
    /\ closed = {}
    /\ DeclaresEntry(modules[1])
    /\ \E n \in DOMAIN out[ModApp].body :
         IsFunction(out[ModApp].body[n]) /\ out[ModApp].body[n].name = "handler__ma"

\* C4: every function, method and class declaration of a pruned tree has a
\* body of at least one statement.
C4_NonEmptyBodies ==
    pc = "done" =>
        \A m \in DOMAIN out : \A d \in DeclsIn(out[m].body) : d.body # <<>>

\* A class is to go: its name is not reachable and none of its methods is.
Unreachable(module_name, class) ==
    /\ FQName(module_name, class.name) \notin closed
    /\ \A n \in MethodNamesIn(class.body) :
         FQMethod(module_name, class.name, n) \notin closed

\* C9: a class whose name is not in the reachable set and none of whose
\* methods is in the reachable set is absent from the pruned tree of its
\* module, and so are its methods.
C9_UnreachableClassRemoved ==
    pc = "done" =>
        \A i \in DOMAIN modules :
            \A c \in DeclsIn(modules[i].tree.body) :
                (c.k = "ClassDef" /\ Unreachable(modules[i].name, c)) =>
                    \A d \in DeclsIn(out[modules[i].name].body) :
                        ~(d.k = "ClassDef" /\ d.name = c.name)

\* A class with a constructor and a method was pruned away while another
\* name of the module was reachable.
C9_Witness ==
    /\ pc = "done"
    /\ modules[1].tree =
         Module(<<ClassDef("C", <<FunctionDef("__init__", <<Other>>),
                                  FunctionDef("g", <<Other>>)>>)>>)
    /\ closed = {}
    /\ out[ModApp].body = <<>>

\* An import names what the rewriter is to make of `before`: the renamed
\* form of a discovered module, and nothing else changed.
RewrittenAlias(before, after) ==
    /\ after.asname = before.asname
    /\ after.name = IF before.name \in Discovered
                    THEN module_renames[before.name] ELSE before.name

RewrittenImport(before, after) ==
    /\ after.k = before.k
    /\ Len(after.names) = Len(before.names)
    /\ IF before.k = "Import"
       THEN \A j \in DOMAIN before.names : RewrittenAlias(before.names[j], after.names[j])
       ELSE /\ after.names = before.names
            /\ after.module = IF before.module \in Discovered
                              THEN module_renames[before.module] ELSE before.module

\* C6: every discovered module is a key of the rename map, with a renamed
\* form different from its name; in the output every import statement that
\* survived pruning names the renamed form of each discovered module its
\* name field referred to, and is otherwise as it was.
C6_RenameTotality ==
    pc = "done" =>
        /\ DOMAIN module_renames = Discovered
        /\ \A m \in Discovered : module_renames[m] # m
        /\ \A i \in DOMAIN modules :
             LET mi == modules[i]
                 before == ImportsIn(PruneModuleTree(PrunerFor(mi.name), mi.tree).body)
                 after == ImportsIn(out[mi.name].body)
             IN  /\ Len(after) = Len(before)
                 /\ \A j \in DOMAIN before : RewrittenImport(before[j], after[j])

\* A from-import of a discovered dotted module and an import of an
\* undiscovered one have been through the rewriter.
C6_Witness ==
    /\ pc = "done"
    /\ Discovered = {ModApp, ModLib, ModPkgIo}
    /\ \E t \in {ImportFrom(ModPkgIo, <<Alias(<<"f">>, None)>>)} :
         /\ modules[1].tree = Module(<<If(<<t>>, <<ImportFrom(ModLib, <<Alias(<<"f">>, None)>>)>>)>>)
         /\ out[ModApp].body[1].body[1].module = <<"pkg__ma", DOT, "io__ma">>
         /\ out[ModApp].body[1].orelse[1].module = <<"lib__ma">>

---------------------------------------------------------------------------
(* Properties of documentation stripping *)

\* the bodies of a tree: the module's and every declaration's
Bodies(tree) == {tree.body} \cup { d.body : d \in DeclsIn(tree.body) }

\* a body that begins with two string-literal statements
DoubleDocstring(body) == Len(body) >= 2 /\ body[1] = DocStmt /\ body[2] = DocStmt

\* C5 as stated: a second stripping pass gives the tree the first pass gave.
C5_StripIdempotent ==
    ~keep_docstrings =>
        /\ Len(minified) >= 2 => minified[2] = minified[1]
        /\ Len(stripped) >= 2 => stripped[2] = stripped[1]

\* C5: on a tree none of whose bodies begins with two string-literal
\* statements, a second stripping pass gives the tree the first pass gave.
C5_StripIdempotentSingleDoc ==
    (~keep_docstrings /\ \A b \in Bodies(modules[1].tree) : ~DoubleDocstring(b)) =>
        /\ Len(minified) >= 2 => minified[2] = minified[1]
        /\ Len(stripped) >= 2 => stripped[2] = stripped[1]

\* Two passes of each stripper have run on a module whose docstring, class
\* docstring and method docstring all went in the first.
C5_Witness ==
    /\ ~keep_docstrings
    /\ modules[1].tree =
         Module(<<DocStmt, ClassDef("C", <<DocStmt, FunctionDef("g", <<DocStmt>>)>>)>>)
    /\ Len(minified) = 2
    /\ Len(stripped) = 2
    /\ minified[2] = Module(<<ClassDef("C", <<FunctionDef("g", <<Pass>>)>>)>>)
    /\ stripped[2] = Module(<<ClassDef("C", <<FunctionDef("g", <<>>)>>)>>)

---------------------------------------------------------------------------
(* Scenarios of the whole pipeline *)

\* Scenario A: app.handler builds a DataFrame imported from lib and calls
\* head and sum on the objects; lib.DataFrame declares __init__, head, sum
\* and unused.
IsScenarioA ==
    /\ entrypoint = FQName(ModApp, "handler")
    /\ modules[1].tree = Module(<<FromLibDataFrame, FunctionDef("handler", ScenarioABody)>>)
    /\ modules[2].tree = ScenarioALib

\* the functions declared directly in the body of the class named `name`
\* at the top level of a tree
MethodsKept(tree, name) ==
    LET classes == { tree.body[i] :
                       i \in { n \in DOMAIN tree.body :
                                 tree.body[n].k = "ClassDef" /\ tree.body[n].name = name } }
    IN  UNION { { c.body[j].name : j \in { n \in DOMAIN c.body : IsFunction(c.body[n]) } } :
                c \in classes }

\* C7: in Scenario A the pruned lib keeps the class DataFrame with its
\* methods head, sum and __init__, and without unused.
C7_ScenarioA ==
    (pc = "done" /\ IsScenarioA) =>
        /\ \E i \in DOMAIN out[ModLib].body :
             out[ModLib].body[i].k = "ClassDef" /\ out[ModLib].body[i].name = "DataFrame"
        /\ MethodsKept(out[ModLib], "DataFrame") = {"__init__", "head", "sum"}

---------------------------------------------------------------------------
(* Termination of the traversal *)

\* C11: on every edge map, cycles and self-loops included, the traversal
\* leaves its loop with an empty work list, and no name is ever expanded
\* more than once.
C11_TerminatesOnceEach ==
    /\ <>(pc = "close" /\ stack = <<>>)
    /\ [](\A n \in DOMAIN expansions : expansions[n] <= 1)

\* The traversal has ended on a graph with a self-loop and a cycle, after
\* expanding each of the two names on it once.
C11_Witness ==
    /\ pc = "close"
    /\ stack = <<>>
    /\ entrypoint = GFunc
    /\ GFunc \in EdgesGet(edges, GFunc)
    /\ GMeth \in EdgesGet(edges, GFunc)
    /\ GFunc \in EdgesGet(edges, GMeth)
    /\ expansions = (GFunc :> 1) @@ (GMeth :> 1)

---------------------------------------------------------------------------
(* Input errors *)

\* C12: when the entrypoint has no ":" or its module part is not a
\* discovered module, the run goes from its start to the error and nowhere
\* else, and then the output directory has not been made and no output
\* file has been written.
C12_ErrorBeforeOutput ==
    (~Contains(COLON, entrypoint) \/ EntryModule(entrypoint) \notin Discovered) =>
        /\ pc \in {"start", "error"}
        /\ ~out_root_made
        /\ written = {}

\* A run that was to write its output has ended with the error for an
\* entry module that was not discovered.
C12_Witness ==
    /\ pc = "error"
    /\ ~dry_run
    /\ Contains(COLON, entrypoint)
    /\ EntryModule(entrypoint) = <<"main">>

---------------------------------------------------------------------------
(* The pruned trees against the reachable set *)

\* the declarations of a body at any depth, each with the class whose body
\* it is lexically in (the innermost one), or None
RECURSIVE DeclsWithClass(_, _)
DeclsWithClass(stmts, cls) ==
    IF stmts = <<>> THEN {}
    ELSE LET s == Head(stmts)
             here == IF IsFunction(s)
                     THEN {[cls |-> cls, node |-> s]} \cup DeclsWithClass(s.body, cls)
                     ELSE IF s.k = "ClassDef"
                     THEN {[cls |-> cls, node |-> s]} \cup DeclsWithClass(s.body, Some(s.name))
                     ELSE IF s.k = "If"
                     THEN DeclsWithClass(s.body, cls) \cup DeclsWithClass(s.orelse, cls)
                     ELSE {}
         IN  here \cup DeclsWithClass(Tail(stmts), cls)

\* the fully-qualified name of a declaration of module m
DeclName(m, d) ==
    IF d.node.k # "ClassDef" /\ d.cls # None
    THEN FQMethod(m, d.cls[1], d.node.name)
    ELSE FQName(m, d.node.name)

\* the names every discovered module declares
AllDeclaredNames ==
    UNION { DeclaredNames(modules[i].name, modules[i].tree) : i \in DOMAIN modules }

\* The reachable set is one the closure step can return.
ClosedByClosure == closed = ComputeReachableSymbols(closed, AllDeclaredNames)

\* a function of the entry module, outside every class, that carries the
\* entry function's name with the suffix
IsRenamedEntry(m, d) ==
    /\ m = EntryModule(entrypoint)
    /\ IsFunction(d.node)
    /\ d.cls = None
    /\ <<d.node.name>> = [ i \in DOMAIN EntryFunc(entrypoint) |-> EntryFunc(entrypoint)[i] \o SUFFIX ]

\* the constructor of a class whose name is in the reachable set
IsCtorOfReachableClass(m, d) ==
    /\ IsFunction(d.node)
    /\ d.cls # None
    /\ d.node.name = "__init__"
    /\ FQName(m, d.cls[1]) \in closed

---------------------------------------------------------------------------
(* The set handed to the Pruner as a fixpoint *)

\* The callers of the edge map are functions and methods, as the analyzer
\* records them: no class name is a caller.
CallersAreFunctions ==
    \A c \in DOMAIN edges : c \in DOMAIN nodes => nodes[c].type # "class"

\* C14: the set the closure step returns is closed under the ownership
\* rules (a method name brings its class, and the constructor the symbol
\* table has for that class) and under the edges: every callee the edge
\* map records for a member is a member.
C14_ClosedFixpoint ==
    (pc = "closed" /\ CallersAreFunctions) =>
        /\ \A n \in closed :
              IsMethodName(n) =>
                 /\ OwnerOf(n) \in closed
                 /\ CtorOf(OwnerOf(n)) \in DOMAIN nodes => CtorOf(OwnerOf(n)) \in closed
        /\ \A n \in closed : EdgesGet(edges, n) \subseteq closed

---------------------------------------------------------------------------
(* Consistency of the rename *)

\* the bare names an expression calls
RECURSIVE NamesCalledInExpr(_)
NamesCalledInExpr(e) ==
    IF e.k = "Call"
    THEN (IF e.func.k = "Name" THEN {e.func.id} ELSE NamesCalledInExpr(e.func))
         \cup UNION { NamesCalledInExpr(e.args[i]) : i \in DOMAIN e.args }
    ELSE IF e.k = "Attribute" THEN NamesCalledInExpr(e.value)
    ELSE {}

\* the bare names called anywhere in a body
RECURSIVE NamesCalledIn(_)
NamesCalledIn(stmts) ==
    IF stmts = <<>> THEN {}
    ELSE LET s == Head(stmts)
             here == IF s.k \in {"Expr", "Assign"} THEN NamesCalledInExpr(s.value)
                     ELSE IF IsFunction(s) \/ s.k = "ClassDef" THEN NamesCalledIn(s.body)
                     ELSE IF s.k = "If" THEN NamesCalledIn(s.body) \cup NamesCalledIn(s.orelse)
                     ELSE {}
         IN  here \cup NamesCalledIn(Tail(stmts))

\* The output of the entry module declares the entry function under its
\* name with the suffix.
EntryRenamed ==
    /\ EntryModule(entrypoint) \in DOMAIN out
    /\ \E d \in DeclsWithClass(out[EntryModule(entrypoint)].body, None) :
          IsRenamedEntry(EntryModule(entrypoint), d)

\* the module names an import statement refers to
ModulesNamedBy(imp) ==
    IF imp.k = "Import" THEN { imp.names[j].name : j \in DOMAIN imp.names }
    ELSE {imp.module}

\* C15: in the output no import names a discovered module by its
\* unsuffixed name, and when the entry function has been renamed, no
\* from-import of the entry module imports it under its unsuffixed name
\* and no call in the entry module calls it by its unsuffixed name.
C15_RenameConsistent ==
    pc = "done" =>
        /\ \A m \in DOMAIN out : \A j \in DOMAIN ImportsIn(out[m].body) :
              ModulesNamedBy(ImportsIn(out[m].body)[j]) \cap Discovered = {}
        /\ EntryRenamed =>
              /\ \A m \in DOMAIN out : \A j \in DOMAIN ImportsIn(out[m].body) :
                    LET imp == ImportsIn(out[m].body)[j]
                    IN  (imp.k = "ImportFrom"
                         /\ imp.module = module_renames[EntryModule(entrypoint)]) =>
                            \A n \in DOMAIN imp.names : imp.names[n].name # EntryFunc(entrypoint)
              /\ \A f \in NamesCalledIn(out[EntryModule(entrypoint)].body) :
                    <<f>> # EntryFunc(entrypoint)

---------------------------------------------------------------------------
(* Documentation literals that stay *)

\* a body whose first statement is a bare string literal
StartsWithDoc(body) == body # <<>> /\ body[1] = DocStmt

\* the declarations of a body at any depth: the names of the declarations
\* around each one and its own, its kind, and whether its body starts with
\* a documentation literal
RECURSIVE DocRecords(_, _)
DocRecords(stmts, path) ==
    IF stmts = <<>> THEN {}
    ELSE LET s == Head(stmts)
             here == IF IsFunction(s) \/ s.k = "ClassDef"
                     THEN {[path |-> Append(path, s.name), k |-> s.k, doc |-> StartsWithDoc(s.body)]}
                          \cup DocRecords(s.body, Append(path, s.name))
                     ELSE IF s.k = "If"
                     THEN DocRecords(s.body, path) \cup DocRecords(s.orelse, path)
                     ELSE {}
         IN  here \cup DocRecords(Tail(stmts), path)

\* a path of the output against a path of the source: name by name the
\* same, or the source's name with the suffix
SamePath(src, res) ==
    /\ Len(src) = Len(res)
    /\ \A i \in DOMAIN src : res[i] = src[i] \/ res[i] = src[i] \o SUFFIX

\* Every documentation literal of the source tree whose body is in the
\* result tree is still the first statement of that body.
DocsKeptIn(src, res) ==
    /\ StartsWithDoc(src.body) => StartsWithDoc(res.body)
    /\ \A o \in DocRecords(res.body, <<>>) : \A i \in DocRecords(src.body, <<>>) :
          (i.k = o.k /\ SamePath(i.path, o.path) /\ i.doc) => o.doc

\* C16: with keep_docstrings true, the leading string literal of every
\* module, class and kept function body is still the first statement of
\* that body in the Pruner's output and in the minifier's.
C16_DocstringsKept ==
    keep_docstrings =>
        /\ pc = "done" =>
              \A i \in DOMAIN modules : DocsKeptIn(modules[i].tree, out[modules[i].name])
        /\ \A n \in DOMAIN minified : DocsKeptIn(modules[1].tree, minified[n])

\* The Pruner has kept a module, a class and a method that each start
\* with a documentation literal, and the three literals with them.
C16_Witness ==
    /\ keep_docstrings
    /\ pc = "done"
    /\ modules[1].tree =
         Module(<<DocStmt, ClassDef("C", <<DocStmt, FunctionDef("g", <<DocStmt>>)>>)>>)
    /\ out[ModApp] = modules[1].tree

---------------------------------------------------------------------------
(* Minify-only mode *)

\* the declarations directly in a body (conditionals looked into), in order
RECURSIVE DeclSeq(_)
DeclSeq(stmts) ==
    IF stmts = <<>> THEN <<>>
    ELSE LET s == Head(stmts)
             here == IF IsFunction(s) \/ s.k = "ClassDef" THEN <<s>>
                     ELSE IF s.k = "If" THEN DeclSeq(s.body) \o DeclSeq(s.orelse)
                     ELSE <<>>
         IN  here \o DeclSeq(Tail(stmts))

\* The result has the declarations of the source, one for one at every
\* depth; with `placeholder`, a declaration whose body was a documentation
\* literal and nothing else has the body `pass`.
RECURSIVE AllDeclsKept(_, _, _)
AllDeclsKept(src, res, placeholder) ==
    LET a == DeclSeq(src)
        b == DeclSeq(res)
    IN  /\ Len(a) = Len(b)
        /\ \A i \in DOMAIN a :
              /\ b[i].k = a[i].k
              /\ b[i].name = a[i].name
              /\ (placeholder /\ a[i].body = <<DocStmt>>) => b[i].body = <<Pass>>
              /\ AllDeclsKept(a[i].body, b[i].body, placeholder)

\* the tree the n-th pass of the minifier was given
MinifyInput(n) == IF n = 1 THEN modules[1].tree ELSE minified[n - 1]

\* C17: in minify-only mode every function, async function, method and
\* class declaration of the input is in the output, and when documentation
\* literals go, a declaration whose body was only one has the body `pass`.
C17_MinifyKeepsAll ==
    \A n \in DOMAIN minified :
        AllDeclsKept(MinifyInput(n).body, minified[n].body, ~keep_docstrings)

\* A class whose only member is a method whose body is a documentation
\* literal has been minified.
C17_Witness ==
    /\ ~keep_docstrings
    /\ Len(minified) >= 1
    /\ modules[1].tree = Module(<<ClassDef("C", <<FunctionDef("g", <<DocStmt>>)>>)>>)
    /\ minified[1] = Module(<<ClassDef("C", <<FunctionDef("g", <<Pass>>)>>)>>)

---------------------------------------------------------------------------
(* What documentation stripping leaves alone *)

\* a body with every declaration cut down to its kind and name
RECURSIVE Shallow(_)
Shallow(stmts) ==
    [ i \in DOMAIN stmts |->
        IF IsFunction(stmts[i]) \/ stmts[i].k = "ClassDef"
        THEN [k |-> stmts[i].k, name |-> stmts[i].name]
        ELSE IF stmts[i].k = "If"
        THEN [k |-> "If", body |-> Shallow(stmts[i].body), orelse |-> Shallow(stmts[i].orelse)]
        ELSE stmts[i] ]

\* The result body is the source body, or the source body without its
\* first statement when that is a bare string literal (with `pass` put in
\* when nothing is left); the same holds of the declarations in it.
RECURSIVE OnlyDocRemoved(_, _)
OnlyDocRemoved(src, res) ==
    LET a == Shallow(src)
        b == Shallow(res)
        da == DeclSeq(src)
        db == DeclSeq(res)
    IN  /\ \/ b = a
           \/ StartsWithDoc(src) /\ b = Tail(a)
           \/ StartsWithDoc(src) /\ Tail(a) = <<>> /\ b = <<Pass>>
        /\ Len(da) = Len(db)
        /\ \A i \in DOMAIN da : OnlyDocRemoved(da[i].body, db[i].body)

\* the tree the n-th pass of the earlier minifier was given
RemoveInput(n) == IF n = 1 THEN modules[1].tree ELSE stripped[n - 1]

\* C18: a stripping pass removes from each module, class or function body
\* at most its first statement, and only when that is a bare string
\* literal; every other statement stays, in its order.
C18_OnlyLeadingDocRemoved ==
    /\ \A n \in DOMAIN minified : OnlyDocRemoved(MinifyInput(n).body, minified[n].body)
    /\ \A n \in DOMAIN stripped : OnlyDocRemoved(RemoveInput(n).body, stripped[n].body)

\* A function that starts with two string literals and assigns a third has
\* been through one pass: the first literal is gone, the others are there.
C18_Witness ==
    /\ ~keep_docstrings
    /\ Len(minified) >= 1
    /\ modules[1].tree = Module(<<FunctionDef("g", <<DocStmt, DocStmt, Other>>)>>)
    /\ minified[1] = Module(<<FunctionDef("g", <<DocStmt, Other>>)>>)

---------------------------------------------------------------------------
(* The edges against the call expressions of the source *)

\* the call expressions of an expression
RECURSIVE CallsOf(_)
CallsOf(e) ==
    IF e.k = "Call"
    THEN {e} \cup CallsOf(e.func) \cup UNION { CallsOf(e.args[i]) : i \in DOMAIN e.args }
    ELSE IF e.k = "Attribute" THEN CallsOf(e.value)
    ELSE {}

\* The call expressions of a body of module m, each with
\*   owner: the name under which the innermost function around it was
\*          recorded in the symbol table (None outside every function);
\*   key:   the caller name made of the innermost class and the innermost
\*          function around it (None outside every function);
\*   cls:   the innermost class around it (None outside every class).
\* cls is the innermost class around the body, fn the innermost function.
RECURSIVE CallSites(_, _, _, _, _)
CallSites(stmts, m, cls, fn, owner) ==
    IF stmts = <<>> THEN {}
    ELSE LET s == Head(stmts)
             key == IF fn = None THEN None
                    ELSE IF cls # None THEN Some(FQMethod(m, cls[1], fn[1]))
                    ELSE Some(FQName(m, fn[1]))
             here ==
                 IF IsFunction(s)
                 THEN CallSites(s.body, m, cls, Some(s.name),
                                Some(IF cls # None THEN FQMethod(m, cls[1], s.name)
                                     ELSE FQName(m, s.name)))
                 ELSE IF s.k = "ClassDef"
                 THEN CallSites(s.body, m, Some(s.name), fn, owner)
                 ELSE IF s.k = "If"
                 THEN CallSites(s.body, m, cls, fn, owner)
                      \cup CallSites(s.orelse, m, cls, fn, owner)
                 ELSE IF s.k \in {"Expr", "Assign"}
                 THEN { [owner |-> owner, key |-> key, cls |-> cls, func |-> c.func] :
                          c \in CallsOf(s.value) }
                 ELSE {}
         IN  here \cup CallSites(Tail(stmts), m, cls, fn, owner)

\* the call expressions of every discovered module
AllCallSites ==
    UNION { CallSites(modules[i].tree.body, modules[i].name, None, None, None) :
              i \in DOMAIN modules }

\* C19: every caller of the edge map is the name under which the symbol
\* table has the innermost function around some call expression; calls
\* outside every function give no caller.
C19_CallerRecorded ==
    pc # "build" =>
        \A caller \in DOMAIN edges :
            /\ caller \in DOMAIN nodes
            /\ \E site \in AllCallSites : site.owner = Some(caller)

\* the from-import bindings of a body, at any depth: local name and target
RECURSIVE FromImportsIn(_)
FromImportsIn(stmts) ==
    IF stmts = <<>> THEN {}
    ELSE LET s == Head(stmts)
             here == IF s.k = "ImportFrom" /\ s.module # None
                     THEN { [local |-> ImportLocalName(s.names[j]),
                             target |-> s.module \o <<COLON>> \o s.names[j].name] :
                              j \in DOMAIN s.names }
                     ELSE IF IsFunction(s) \/ s.k = "ClassDef" THEN FromImportsIn(s.body)
                     ELSE IF s.k = "If" THEN FromImportsIn(s.body) \cup FromImportsIn(s.orelse)
                     ELSE {}
         IN  here \cup FromImportsIn(Tail(stmts))

\* C20: for a call of a bare name inside a function or method, the callees
\* recorded for its caller contain "M:N" when the module has a from-import
\* `from M import N` binding that name, and "<current_module>:<name>"
\* otherwise.
C20_BareNameTarget ==
    pc # "build" =>
        \A i \in DOMAIN modules :
            LET m == modules[i].name
                body == modules[i].tree.body
                bound == FromImportsIn(body)
            IN  \A site \in CallSites(body, m, None, None, None) :
                    (site.key # None /\ site.func.k = "Name") =>
                        IF \E b \in bound : b.local = site.func.id
                        THEN \E b \in bound :
                                /\ b.local = site.func.id
                                /\ b.target \in EdgesGet(edges, site.key[1])
                        ELSE FQName(m, site.func.id) \in EdgesGet(edges, site.key[1])

---------------------------------------------------------------------------
(* Properties of attribute calls *)

\* the `import` bindings of a body, at any depth: local name and module
RECURSIVE ModuleBindingsIn(_)
ModuleBindingsIn(stmts) ==
    IF stmts = <<>> THEN {}
    ELSE LET s == Head(stmts)
             here == IF s.k = "Import"
                     THEN { [local |-> ImportLocalName(s.names[j]),
                             module |-> s.names[j].name] : j \in DOMAIN s.names }
                     ELSE IF IsFunction(s) \/ s.k = "ClassDef" THEN ModuleBindingsIn(s.body)
                     ELSE IF s.k = "If"
                     THEN ModuleBindingsIn(s.body) \cup ModuleBindingsIn(s.orelse)
                     ELSE {}
         IN  here \cup ModuleBindingsIn(Tail(stmts))

\* the shape `self.attr(...)` in a class context
IsSelfCall(site) ==
    /\ site.func.k = "Attribute"
    /\ site.func.value.k = "Name"
    /\ site.func.value.id = "self"
    /\ site.cls # None

\* the shape `base.attr(...)` with base bound by an `import` of the module
IsModuleCall(site, bound) ==
    /\ site.func.k = "Attribute"
    /\ site.func.value.k = "Name"
    /\ ~IsSelfCall(site)
    /\ \E b \in bound : b.local = site.func.value.id

\* the targets the three shapes allow for one call expression of module m
AttributeTargets(site, m, bound) ==
    IF IsSelfCall(site) THEN {FQMethod(m, site.cls[1], site.func.attr)}
    ELSE IF IsModuleCall(site, bound)
    THEN { b.module \o <<COLON, site.func.attr>> :
             b \in {c \in bound : c.local = site.func.value.id} }
    ELSE {}

\* C21: for an attribute call base.attr inside a function or method, the
\* callees of its caller contain "<module>:<CurrentClass>.<attr>" when base
\* is `self` in a class context, and otherwise "<that_module>:<attr>" when
\* base is a name bound to an imported module; a caller whose calls are all
\* attribute calls has no callee that these two shapes do not give.
C21_AttributeTarget ==
    pc # "build" =>
        \A i \in DOMAIN modules :
            LET m == modules[i].name
                body == modules[i].tree.body
                bound == ModuleBindingsIn(body)
                sites == { s \in CallSites(body, m, None, None, None) : s.key # None }
            IN  /\ \A site \in sites :
                       (IsSelfCall(site) \/ IsModuleCall(site, bound)) =>
                           AttributeTargets(site, m, bound) \cap EdgesGet(edges, site.key[1]) # {}
                /\ \A key \in { s.key[1] : s \in sites } :
                       (\A s \in sites : s.key = Some(key) => s.func.k = "Attribute") =>
                           EdgesGet(edges, key) \subseteq
                               UNION { AttributeTargets(s, m, bound) :
                                         s \in {x \in sites : x.key = Some(key)} }

---------------------------------------------------------------------------
(* Properties of the edge map *)

\* the call graph has been built: nodes and edges hold its result
GraphBuilt == pc \in {"traverse", "close", "closed", "prune", "done"}

\* C22: after the construction of the call graph every declared function and
\* method is a key of the edge map, with the empty set as its callees when
\* its body makes no call that resolves.
C22_EveryFunctionIsKey ==
    GraphBuilt =>
        \A n \in DOMAIN nodes :
            nodes[n].type \in {"function", "method"} => n \in DOMAIN edges

\* C23: for every class that declares the constructor `__init__`, the edge
\* map has the edge from the class to that constructor.
C23_ClassToConstructorEdge ==
    GraphBuilt =>
        \A c \in DOMAIN nodes :
            (nodes[c].type = "class" /\ CtorOf(c) \in DOMAIN nodes) =>
                CtorOf(c) \in EdgesGet(edges, c)

---------------------------------------------------------------------------
(* Properties of the pruning of module-level functions *)

\* a function of module m that must stay: its name is in the reachable set,
\* or it is the entry function of the entry module
MustStay(m, name) ==
    \/ FQName(m, name) \in closed
    \/ m = EntryModule(entrypoint) /\ <<name>> = EntryFunc(entrypoint)

\* the functions declared directly in a module body that must stay, in order
RECURSIVE StayingFunctions(_, _)
StayingFunctions(stmts, m) ==
    IF stmts = <<>> THEN <<>>
    ELSE (IF IsFunction(Head(stmts)) /\ MustStay(m, Head(stmts).name)
          THEN <<Head(stmts)>> ELSE <<>>) \o StayingFunctions(Tail(stmts), m)

\* some function declared directly in the module body must go
SomeFunctionGoes(stmts, m) ==
    \E j \in DOMAIN stmts : IsFunction(stmts[j]) /\ ~MustStay(m, stmts[j].name)

\* C24: the functions at the top level of a pruned module are, in order,
\* the top-level functions of the source whose fully-qualified name is in
\* the reachable set or that are the entry function of the entry module (a
\* function is present if and only if one of the two holds); where a
\* function was dropped the output has no placeholder statement.
C24_ModuleFunctionKeptIff ==
    pc = "done" =>
        \A i \in DOMAIN modules :
            LET m == modules[i].name
                src == modules[i].tree.body
                res == out[m].body
                want == StayingFunctions(src, m)
                got == SelectSeq(res, IsFunction)
            IN  /\ Len(got) = Len(want)
                /\ \A j \in DOMAIN want :
                      /\ got[j].k = want[j].k
                      /\ got[j].name \in {want[j].name, want[j].name \o SUFFIX}
                /\ SomeFunctionGoes(src, m) => \A j \in DOMAIN res : res[j] # Pass

\* Of two top-level functions one was kept and the other dropped, and the
\* output is one statement shorter than the source.
C24_Witness ==
    /\ pc = "done"
    /\ SomeFunctionGoes(modules[1].tree.body, ModApp)
    /\ StayingFunctions(modules[1].tree.body, ModApp) # <<>>
    /\ Len(out[ModApp].body) = Len(modules[1].tree.body) - 1

---------------------------------------------------------------------------
(* Properties of the renaming of declarations *)

\* the declarations of a body that stand inside another declaration
NestedDecls(stmts) ==
    UNION { DeclsIn(DeclSeq(stmts)[j].body) : j \in DOMAIN DeclSeq(stmts) }

\* the entry function's name with the suffix, as a name of module m
IsSuffixedEntryName(m, name) ==
    /\ m = EntryModule(entrypoint)
    /\ <<name>> = [ i \in DOMAIN EntryFunc(entrypoint) |-> EntryFunc(entrypoint)[i] \o SUFFIX ]

\* C25: the only declaration the Pruner renames is the module-level entry
\* function of the entry module: every declaration of a pruned tree that
\* stands inside another declaration carries a name the source declares, and
\* so does every module-level declaration other than a function carrying
\* the suffixed entry name in the entry module.
C25_OnlyEntryRenamed ==
    pc = "done" =>
        \A i \in DOMAIN modules :
            LET m == modules[i].name
                names == { d.name : d \in DeclsIn(modules[i].tree.body) }
                top == DeclSeq(out[m].body)
            IN  /\ \A d \in NestedDecls(out[m].body) : d.name \in names
                /\ \A j \in DOMAIN top :
                      top[j].name \notin names =>
                          IsFunction(top[j]) /\ IsSuffixedEntryName(m, top[j].name)

---------------------------------------------------------------------------
(* Properties of the pruning of classes *)

\* A class of module m must stay: its name is in the reachable set, or a
\* function declared directly in its body survives the pruning of the body
\* (the name of the method is in the set, or it is `__init__` and the name
\* of the class is in the set).
ClassStays(m, class) ==
    \/ FQName(m, class.name) \in closed
    \/ \E j \in DOMAIN class.body :
          /\ IsFunction(class.body[j])
          /\ FQMethod(m, class.name, class.body[j].name) \in closed

\* the declarations of a pruned body that stand for the declaration s
KeptAs(s, res) ==
    { o \in { DeclSeq(res)[j] : j \in DOMAIN DeclSeq(res) } :
        /\ o.k = s.k
        /\ o.name \in (IF IsFunction(s) THEN {s.name, s.name \o SUFFIX} ELSE {s.name}) }

\* The rule holds for every class of src that the Pruner decides on: the
\* classes at this level, and those inside the declarations kept in res.
RECURSIVE ClassRule(_, _, _)
ClassRule(src, res, m) ==
    \A s \in { DeclSeq(src)[j] : j \in DOMAIN DeclSeq(src) } :
        /\ s.k = "ClassDef" => (KeptAs(s, res) # {} <=> ClassStays(m, s))
        /\ \A o \in KeptAs(s, res) : ClassRule(s.body, o.body, m)

\* C26 as stated: a class declaration of the source, at any depth, is in
\* the pruned output if and only if its name is in the reachable set or one
\* of its methods survived.
C26_ClassKeptIff ==
    pc = "done" =>
        \A i \in DOMAIN modules :
            LET m == modules[i].name
            IN  \A c \in { d \in DeclsIn(modules[i].tree.body) : d.k = "ClassDef" } :
                    (\E o \in DeclsIn(out[m].body) : o.k = "ClassDef" /\ o.name = c.name)
                        <=> ClassStays(m, c)

\* C26: a class declaration at module level or inside kept declarations is
\* in the pruned output if and only if its name is in the reachable set or
\* a function declared directly in its body survived the pruning of the
\* body; a class inside a dropped declaration is not decided on and goes
\* with it.
C26_VisitedClassKeptIff ==
    pc = "done" =>
        \A i \in DOMAIN modules :
            ClassRule(modules[i].tree.body, out[modules[i].name].body, modules[i].name)

\* A class whose name is not in the reachable set was kept for its one
\* surviving method.
C26_Witness ==
    /\ pc = "done"
    /\ closed = {FQMethod(ModApp, "C", "g")}
    /\ \E j \in DOMAIN out[ModApp].body :
          /\ out[ModApp].body[j].k = "ClassDef"
          /\ out[ModApp].body[j].name = "C"
          /\ \E n \in DOMAIN out[ModApp].body[j].body :
                IsFunction(out[ModApp].body[j].body[n])

---------------------------------------------------------------------------
(* Properties of the statements the Pruner does not decide on *)

\* a statement that is neither a declaration, nor an import (the Import
\* Rewriter edits those), nor a placeholder
IsPlainStmt(s) == s.k \in {"Expr", "Assign", "If"}

\* a body without the documentation literal the Pruner strips
WithoutLeadingDoc(body) ==
    IF ~keep_docstrings /\ StartsWithDoc(body) THEN Tail(body) ELSE body

\* the declarations standing directly in a body
DirectDecls(body) ==
    { body[j] : j \in { n \in DOMAIN body : IsFunction(body[n]) \/ body[n].k = "ClassDef" } }

\* The plain statements of res are those of src, in order and with their
\* whole content, and so on inside every declaration kept in res.
RECURSIVE PlainKept(_, _)
PlainKept(src, res) ==
    /\ SelectSeq(res, IsPlainStmt) = SelectSeq(WithoutLeadingDoc(src), IsPlainStmt)
    /\ \A s \in DirectDecls(src) :
          \A o \in { d \in DirectDecls(res) :
                       d.k = s.k /\ d.name \in {s.name, s.name \o SUFFIX} } :
              PlainKept(s.body, o.body)

\* C27: every statement that is not a function declaration, a class
\* declaration or a leading documentation literal is in the pruned output
\* as it was in the source, the contents of its nested blocks included, and
\* in the same order (the module names of imports apart, which the Import
\* Rewriter edits after the Pruner).
C27_OtherStatementsUnchanged ==
    pc = "done" =>
        \A i \in DOMAIN modules :
            PlainKept(RewriteModuleTree(module_renames, modules[i].tree).body,
                      out[modules[i].name].body)

---------------------------------------------------------------------------
(* Properties of async functions *)

RECURSIVE ToSyncList(_)

\* a statement with every async function declaration in it made a plain one
ToSyncStmt(s) ==
    IF s.k \in {"FunctionDef", "AsyncFunctionDef"}
    THEN [s EXCEPT !.k = "FunctionDef", !.body = ToSyncList(s.body)]
    ELSE IF s.k = "ClassDef" THEN [s EXCEPT !.body = ToSyncList(s.body)]
    ELSE IF s.k = "If"
    THEN [s EXCEPT !.body = ToSyncList(s.body), !.orelse = ToSyncList(s.orelse)]
    ELSE s

ToSyncList(stmts) == [ j \in DOMAIN stmts |-> ToSyncStmt(stmts[j]) ]

ToSyncTree(tree) == [tree EXCEPT !.body = ToSyncList(tree.body)]

\* the project with every async function declared as a plain function
SyncTwin == [ i \in DOMAIN modules |-> [modules[i] EXCEPT !.tree = ToSyncTree(modules[i].tree)] ]

\* some declaration of the project is an async function
HasAsync ==
    \E i \in DOMAIN modules :
        \E d \in DeclsIn(modules[i].tree.body) : d.k = "AsyncFunctionDef"

\* C28: an async function declaration is handled as a plain one at every
\* stage: the symbol table and the edge map of the project are those of the
\* project with every async function declared as a plain function (same
\* names, same types, same nodes up to the kind of declaration), and the
\* output of every module is the output for that project up to the kind of
\* declaration: same declarations kept and dropped, same renaming, same
\* stripping of documentation literals, same placeholders.
C28_AsyncAsSync ==
    pc = "done" =>
        LET cg == MergeModules([nodes |-> <<>>, edges |-> <<>>], SyncTwin, 1)
        IN  /\ DOMAIN nodes = DOMAIN cg.nodes
            /\ \A n \in DOMAIN nodes :
                  /\ nodes[n].name = cg.nodes[n].name
                  /\ nodes[n].type = cg.nodes[n].type
                  /\ ToSyncStmt(nodes[n].node) = cg.nodes[n].node
            /\ edges = cg.edges
            /\ \A i \in DOMAIN modules :
                  ToSyncTree(out[modules[i].name]) =
                      RewriteModuleTree(module_renames,
                          PruneModuleTree(PrunerFor(modules[i].name), SyncTwin[i].tree))

\* An async function that makes a call was recorded as a caller, kept, and
\* lost its documentation literal.
C28_Witness ==
    /\ pc = "done"
    /\ ~keep_docstrings
    /\ FQName(ModApp, "local") \in DOMAIN edges
    /\ nodes[FQName(ModApp, "local")].node.k = "AsyncFunctionDef"
    /\ \E j \in DOMAIN out[ModApp].body :
          out[ModApp].body[j] = AsyncFunctionDef("local", <<CallLibHelper>>)

---------------------------------------------------------------------------
(* Properties of the symbol table *)

\* The declarations of a body of module m in the order the analyzer visits
\* them (a declaration before the declarations inside it), each with the
\* fully-qualified name and the type it is recorded under; cls is the
\* innermost class around the body.
RECURSIVE DeclOrder(_, _, _)
DeclOrder(stmts, m, cls) ==
    IF stmts = <<>> THEN <<>>
    ELSE LET s == Head(stmts)
             here ==
                 IF s.k \in {"FunctionDef", "AsyncFunctionDef"}
                 THEN << [ fq |-> IF cls # None THEN FQMethod(m, cls[1], s.name)
                                  ELSE FQName(m, s.name),
                           type |-> IF cls # None THEN "method" ELSE "function",
                           node |-> s ] >> \o DeclOrder(s.body, m, cls)
                 ELSE IF s.k = "ClassDef"
                 THEN << [fq |-> FQName(m, s.name), type |-> "class", node |-> s] >>
                      \o DeclOrder(s.body, m, Some(s.name))
                 ELSE IF s.k = "If"
                 THEN DeclOrder(s.body, m, cls) \o DeclOrder(s.orelse, m, cls)
                 ELSE <<>>
         IN  here \o DeclOrder(Tail(stmts), m, cls)

\* the declarations of modules[i..], in visiting order
RECURSIVE ProjectDeclOrder(_)
ProjectDeclOrder(i) ==
    IF i > Len(modules) THEN <<>>
    ELSE DeclOrder(modules[i].tree.body, modules[i].name, None) \o ProjectDeclOrder(i + 1)

\* the last declaration of the order recorded under the name n
LastDeclared(order, n) ==
    order[CHOOSE j \in DOMAIN order :
            /\ order[j].fq = n
            /\ \A l \in DOMAIN order : order[l].fq = n => l <= j]

\* C29: the symbol table has one entry per fully-qualified name, for the
\* names the declarations of the project are recorded under and no other;
\* when several declarations share a name, the entry is that of the
\* declaration visited last.
C29_LastDeclarationWins ==
    pc # "build" =>
        LET order == ProjectDeclOrder(1)
        IN  /\ DOMAIN nodes = { order[j].fq : j \in DOMAIN order }
            /\ \A n \in DOMAIN nodes :
                  LET d == LastDeclared(order, n)
                  IN  /\ nodes[n].name = d.node.name
                      /\ nodes[n].type = d.type
                      /\ nodes[n].node = d.node

\* Two declarations of app:handler with different bodies were analyzed, and
\* the entry of the symbol table is the second one.
C29_Witness ==
    /\ pc # "build"
    /\ Len(modules[1].tree.body) = 2
    /\ modules[1].tree.body[1] = FunctionDef("handler", <<CallMake>>)
    /\ modules[1].tree.body[2] = FunctionDef("handler", <<CallHelper>>)
    /\ nodes[FQName(ModApp, "handler")].node = modules[1].tree.body[2]

---------------------------------------------------------------------------
(* Properties of the declarations the reachable set needs *)

\* the name the symbol table records for a declaration s of module m whose
\* innermost enclosing class is cls
RecordedName(m, cls, s) ==
    IF s.k # "ClassDef" /\ cls # None THEN FQMethod(m, cls[1], s.name)
    ELSE FQName(m, s.name)

\* Every declaration of src whose recorded name is in the reachable set is
\* kept in res, and so on inside every declaration kept in res.
RECURSIVE NeededKept(_, _, _, _)
NeededKept(src, res, m, cls) ==
    \A s \in { DeclSeq(src)[j] : j \in DOMAIN DeclSeq(src) } :
        /\ RecordedName(m, cls, s) \in closed => KeptAs(s, res) # {}
        /\ \A o \in KeptAs(s, res) :
              NeededKept(s.body, o.body, m, IF s.k = "ClassDef" THEN Some(s.name) ELSE cls)

\* C30 as stated: every declaration of the source whose recorded name is in
\* the reachable set is in the pruned output, whatever its nesting.
C30_NeededKeptAtAnyDepth ==
    pc = "done" =>
        \A i \in DOMAIN modules :
            LET m == modules[i].name
            IN  \A d \in DeclsWithClass(modules[i].tree.body, None) :
                    DeclName(m, d) \in closed =>
                        \E o \in DeclsWithClass(out[m].body, None) :
                            /\ o.cls = d.cls
                            /\ KeptAs(d.node, <<o.node>>) # {}

\* C30: every declaration whose recorded name is in the reachable set and
\* whose enclosing declarations are all kept is in the pruned output; a
\* declaration inside a dropped function or class goes with it.
C30_NeededKeptWhereVisited ==
    pc = "done" =>
        \A i \in DOMAIN modules :
            NeededKept(modules[i].tree.body, out[modules[i].name].body,
                       modules[i].name, None)

\* A function nested in a kept function has its name in the reachable set
\* and is in the output, inside that function.
C30_Witness ==
    /\ pc = "done"
    /\ closed = {FQName(ModApp, "g"), FQName(ModApp, "h")}
    /\ \E j \in DOMAIN out[ModApp].body :
          /\ IsFunction(out[ModApp].body[j])
          /\ out[ModApp].body[j].name = "g"
          /\ \E n \in DOMAIN out[ModApp].body[j].body :
                /\ IsFunction(out[ModApp].body[j].body[n])
                /\ out[ModApp].body[j].body[n].name = "h"

===========================================================================
